---- MODULE Spec2Model ----
(***************************************************************************)
(* Model of the Sunseeker lawn-mower integration                           *)
(* (custom_components/sunseeker/__init__.py): one SunseekerCoordinator,    *)
(* the paho MQTT network thread that calls into it, the executor jobs it   *)
(* dispatches and the Home Assistant event loop that runs its coroutines.  *)
(***************************************************************************)
EXTENDS Integers, Sequences, FiniteSets, TLC

(***************************************************************************)
(* Bounds of the model.                                                    *)
(***************************************************************************)
\* Inputs of a run of the whole coordinator: connection results, inbound
\* messages, refreshes and commands.
MaxInputs == 3
\* Inputs of a run of the status cache.
MaxCacheInputs == 4
\* Inputs of a run of the teardown: connection results and further calls of
\* async_shutdown.
MaxShutdownInputs == 3
\* Inputs of a run of the commands: connection results and calls.
MaxCommandInputs == 2
\* Inputs of a run of the device identity: connection results and messages.
MaxIdentityInputs == 4
MaxRegistryInputs == 4
MaxFlowInputs == 2
MaxIdLen == 2
MaxActivityInputs == 2

(***************************************************************************)
(* Program constants (const.py).                                           *)
(***************************************************************************)
RESP_ROBOT_STATUS == 501
RESP_RAIN_STATUS == 505
CMD_STATUS_UPDATE == 200
CMD_RAIN_DELAY == 205
CMD_STOP == [cmd |-> 101, mode |-> 0]
CMD_START_MOWING == [cmd |-> 101, mode |-> 1]
CMD_RETURN_DOCK == [cmd |-> 101, mode |-> 2]
\* TOPIC_COMMAND and TOPIC_RESPONSE, formatted for the device "id".
TOPIC_COMMAND == "/device/id/get"
TOPIC_RESPONSE == "/device/id/update"

\* A cmd code the handler does not know (RESP_ROBOT_NAME).
RESP_ROBOT_NAME == 502
\* data.get(key) on a missing key, and the "Unknown" default of device info.
NoValue == -1

(***************************************************************************)
(* Python dicts are functions from field names to values.                  *)
(***************************************************************************)
EmptyDict == [f \in {} |-> 0]

\* coordinator.data before anything was published (DataUpdateCoordinator
\* starts with data = None); a value no JSON object of the model equals.
None == [f \in {"None"} |-> 0]

Get(d, f, default) == IF f \in DOMAIN d THEN d[f] ELSE default

\* {**a, **b}: shallow union, the fields of b win.
Merge(a, b) ==
    [f \in (DOMAIN a) \cup (DOMAIN b) |-> IF f \in DOMAIN b THEN b[f] ELSE a[f]]

(***************************************************************************)
(* Inbound payloads.  A payload is text that is not JSON ("invalid"), JSON *)
(* that is not an object ("nonobject": a list, a number, null) or a JSON   *)
(* object.  An object of the model carries an optional cmd and an optional *)
(* field "mode" that a message of either kind may carry.                   *)
(***************************************************************************)
CmdCodes == {RESP_ROBOT_STATUS, RESP_RAIN_STATUS, RESP_ROBOT_NAME}
ModeValues == {1, 2}

Objects ==
    {[f \in {"cmd", "mode"} |-> IF f = "cmd" THEN c ELSE m] :
        c \in {RESP_ROBOT_STATUS, RESP_RAIN_STATUS}, m \in ModeValues}
    \cup {[f \in {"cmd"} |-> c] : c \in CmdCodes}
    \cup {[f \in {"mode"} |-> 1]}

Payloads ==
    {[kind |-> "invalid", obj |-> EmptyDict], [kind |-> "nonobject", obj |-> EmptyDict]}
    \cup {[kind |-> "object", obj |-> o] : o \in Objects}

\* The payloads of the specification of the whole coordinator: two robot
\* status messages, a rain status message and text that is not JSON.
CorePayloads ==
    {[kind |-> "invalid", obj |-> EmptyDict]}
    \cup {[kind |-> "object", obj |-> [f \in {"cmd", "mode"} |-> IF f = "cmd" THEN RESP_ROBOT_STATUS ELSE m]] :
            m \in ModeValues}
    \cup {[kind |-> "object", obj |-> [f \in {"cmd"} |-> RESP_RAIN_STATUS]]}

\* The payloads of the specification of the device identity.  Models and
\* versions are numbered; -1 is not among them.
ModelValues == {7, 8}

IdentityPayloads ==
    {[kind |-> "invalid", obj |-> EmptyDict]}
    \cup {[kind |-> "object", obj |-> [f \in {"cmd"} |-> c]] :
            c \in {RESP_ROBOT_STATUS, RESP_RAIN_STATUS}}
    \cup {[kind |-> "object", obj |-> [f \in {"cmd", "model"} |-> IF f = "cmd" THEN RESP_ROBOT_STATUS ELSE 7]]}
    \cup {[kind |-> "object", obj |-> [f \in {"cmd", "model", "version"} |->
                                        IF f = "cmd" THEN c ELSE m]] :
            c \in {RESP_ROBOT_STATUS, RESP_RAIN_STATUS}, m \in ModelValues}

VARIABLES
    status_data,    \* self._status_data
    rain_data,      \* self._rain_data
    data,           \* self.data, the snapshot entities read
    device_info,    \* self._device_info
    mqtt_client,    \* self._mqtt_client is not None
    connected,      \* self._connected
    thread,         \* the paho loop thread is running
    subscribed,     \* the broker session holds the response-topic subscription
    loopQueue,      \* coroutines handed to the event loop, in hand-off order
    initTasks,      \* running _async_request_initial_status coroutines
    refresh,        \* the _async_update_data call in flight and its outcome
    cmdTask,        \* an async_send_command call from an entity or a service
    entry,          \* position of async_setup_entry / async_unload_entry
    unload_ok,      \* the value async_unload_entry returns
    listeners,      \* entities are subscribed to the coordinator
    timer,          \* a refresh timer is pending
    last_update_success,
    ev,             \* what the last step did
    arrRobot,       \* last robot-status object the MQTT thread received
    arrRain,        \* last rain-status object the MQTT thread received
    older,          \* the robot-status object received before arrRobot
    ingRobot,       \* last robot-status object ingested
    ingRain,        \* last rain-status object ingested
    fresh,          \* a status message was ingested since the refresh began
    inflight,       \* a refresh was in flight when the unload began
    left,           \* how many more inputs the run takes
    shutdowns,      \* further async_shutdown calls in progress, their positions
    command,        \* the dict the pending async_send_command call was given
    published,      \* the message the last step published for a command
    call,           \* call.data if the last step was a call of set_schedule
    retry,          \* a refresh failed / the timer retries / the retry succeeded
    hass_data,      \* hass.data: the registry of coordinators under the domain key
    services,       \* hass.services of the domain: the coordinator each handler uses
    setup,          \* per config entry: its state and its setup or unload in progress
    coordinators,   \* how many coordinators were built, which were shut down
    flow,           \* what the last step of the config flow returned
    config_entries, \* the config entries created, by unique id
    activity        \* what the lawn mower's activity property last returned

\* The registry of coordinators, the services and the entries' setups.
registryVars == <<hass_data, services, setup, coordinators>>
flowVars == <<flow, config_entries>>
entityVars == <<activity>>

\* The integration's state in hass.
hassVars == <<registryVars, flowVars, entityVars>>

\* One coordinator.
coordinatorVars ==
    <<status_data, rain_data, data, device_info, mqtt_client, connected,
      thread, subscribed, loopQueue, initTasks, refresh, cmdTask, entry,
      unload_ok, listeners, timer, last_update_success, ev, arrRobot,
      arrRain, older, ingRobot, ingRain, fresh, inflight, shutdowns,
      command, published, call, retry>>

vars == <<coordinatorVars, left, hassVars>>

cacheVars == <<status_data, rain_data, data, device_info>>
mqttVars == <<mqtt_client, connected, thread, subscribed>>
taskVars == <<initTasks, refresh, cmdTask>>
entryVars == <<entry, unload_ok, listeners>>
ghostVars == <<arrRobot, arrRain, older, ingRobot, ingRain, inflight>>
callVars == <<shutdowns, command>>

\* The record of a step: the context it ran in ("mqtt" thread, event "loop",
\* "executor" thread), the operation, whether it notified the coordinator's
\* listeners, the exception that left the operation and the command it
\* published.
Event(ctx, op, notify, exc, pub) ==
    [ctx |-> ctx, op |-> op, notify |-> notify, exc |-> exc, pub |-> pub]
NoPub == 0

IdleRefresh == [pc |-> "idle", s200 |-> FALSE, s205 |-> FALSE, result |-> "none"]

\* The step published nothing.
NoMessage == [topic |-> "none", payload |-> {}]

SunseekerDomain == "sunseeker"
Entries == {"e1", "e2"}
ServiceNames == {"set_schedule", "set_rain_delay", "edge_cut"}
NoCoordinator == 0

\* hass.data.get(DOMAIN, {})
Registry(hd) == Get(hd, SunseekerDomain, EmptyDict)

Idle(state) ==
    [pc |-> "idle", state |-> state, coordinator |-> NoCoordinator,
     unload_ok |-> TRUE, platforms |-> "none", ret |-> "none", nested |-> FALSE]

\* No step of the config flow has run.
NoFlow == [type |-> "none", errors |-> "none", device_id |-> <<>>]

\* The activity property was not read yet.
NotRead == [exc |-> "none", value |-> "not read"]

InitHass ==
    /\ hass_data = EmptyDict
    /\ services = EmptyDict
    /\ setup = [e \in Entries |-> Idle("not_loaded")]
    /\ coordinators = [created |-> 0, shut |-> {}]
    /\ flow = NoFlow
    /\ config_entries = EmptyDict
    /\ activity = NotRead

\* The coordinator as __init__ leaves it, with n inputs to come.
Constructed(n) ==
    /\ status_data = EmptyDict
    /\ rain_data = EmptyDict
    /\ data = None
    /\ device_info = None
    /\ mqtt_client = FALSE
    /\ connected = FALSE
    /\ thread = FALSE
    /\ subscribed = FALSE
    /\ loopQueue = <<>>
    /\ initTasks = <<>>
    /\ refresh = IdleRefresh
    /\ cmdTask = "idle"
    /\ entry = "new"
    /\ unload_ok = TRUE
    /\ listeners = FALSE
    /\ timer = FALSE
    /\ last_update_success = TRUE
    /\ ev = Event("init", "init", FALSE, "none", NoPub)
    /\ arrRobot = EmptyDict
    /\ arrRain = EmptyDict
    /\ older = EmptyDict
    /\ ingRobot = EmptyDict
    /\ ingRain = EmptyDict
    /\ fresh = FALSE
    /\ inflight = FALSE
    /\ left = n
    /\ shutdowns = <<>>
    /\ command = EmptyDict
    /\ published = NoMessage
    /\ call = None
    /\ retry = "none"
    /\ InitHass

Init == Constructed(MaxInputs)

\* A step that publishes no command and is no call of set_schedule.
Quiet == published' = NoMessage /\ call' = None

InitCache == Constructed(MaxCacheInputs)

(***************************************************************************)
(* The MQTT network thread (paho's loop thread) and its callbacks.         *)
(***************************************************************************)
\* A test that takes a message without a cmd for a robot-status message.
IsRobotStatusDefault(obj) == Get(obj, "cmd", RESP_ROBOT_STATUS) = RESP_ROBOT_STATUS

\* data.get("cmd") == RESP_ROBOT_STATUS
IsRobotStatus(obj) == Get(obj, "cmd", NoValue) = RESP_ROBOT_STATUS
IsRainStatus(obj) == Get(obj, "cmd", NoValue) = RESP_RAIN_STATUS

\* A connect callback that leaves the subscriptions of the session alone.
SubscribeSkipped(sub) == sub

\* client.subscribe(self.response_topic, qos=1): whether the session holds
\* the subscription after the call.
Subscribe(sub) == TRUE

\* _on_mqtt_connect: rc = 0 subscribes, sets the flag and schedules the
\* initial status request on the event loop; any other rc clears the flag.
\* The flag is written here, by the MQTT thread itself.  paho calls it
\* with the answer to a CONNECT, which it sends only while no session is
\* up (the first connect, or a reconnect after the session was lost).
on_mqtt_connect(rc) ==
    /\ thread
    /\ ~subscribed
    /\ left > 0
    /\ IF rc = 0
       THEN /\ subscribed' = Subscribe(subscribed)
            /\ connected' = TRUE
            /\ loopQueue' = Append(loopQueue, [kind |-> "initial", payload |-> [kind |-> "invalid", obj |-> EmptyDict]])
       ELSE /\ connected' = FALSE
            /\ UNCHANGED <<subscribed, loopQueue>>
    /\ left' = left - 1
    /\ ev' = Event("mqtt", "connect", FALSE, "none", NoPub)
    /\ UNCHANGED <<cacheVars, mqtt_client, thread, taskVars, entryVars, timer,
                   last_update_success, ghostVars, fresh>>
    /\ UNCHANGED <<callVars, retry, hassVars>>
    /\ Quiet

\* _on_mqtt_disconnect: the broker session is gone; clears the flag.
on_mqtt_disconnect ==
    /\ thread
    /\ subscribed
    /\ connected' = FALSE
    /\ subscribed' = FALSE
    /\ ev' = Event("mqtt", "disconnect", FALSE, "none", NoPub)
    /\ UNCHANGED <<cacheVars, mqtt_client, thread, loopQueue, taskVars, entryVars,
                   timer, last_update_success, ghostVars, fresh, left>>
    /\ UNCHANGED <<callVars, retry, hassVars>>
    /\ Quiet

\* A callback that ingests a robot-status message itself, on the MQTT thread.
OnMessageCacheIngest(p, c) ==
    IF p.kind = "object" /\ IsRobotStatus(p.obj)
    THEN [c EXCEPT !.status = p.obj, !.data = Merge(p.obj, c.rain)]
    ELSE c

\* What _on_mqtt_message does with the cache when message p arrives: nothing.
OnMessageCache(p, c) == c

\* _on_mqtt_message: hands the message over to the event loop.
on_mqtt_message(p) ==
    /\ thread
    /\ subscribed
    /\ left > 0
    /\ loopQueue' = Append(loopQueue, [kind |-> "msg", payload |-> p])
    /\ LET c == OnMessageCache(p, [status |-> status_data, rain |-> rain_data, data |-> data])
       IN  /\ status_data' = c.status
           /\ rain_data' = c.rain
           /\ data' = c.data
    /\ arrRobot' = IF p.kind = "object" /\ IsRobotStatus(p.obj) THEN p.obj ELSE arrRobot
    /\ arrRain' = IF p.kind = "object" /\ IsRainStatus(p.obj) THEN p.obj ELSE arrRain
    /\ older' = IF p.kind = "object" /\ IsRobotStatus(p.obj) THEN arrRobot ELSE older
    /\ left' = left - 1
    /\ ev' = Event("mqtt", "message", FALSE, "none", NoPub)
    /\ UNCHANGED <<device_info, mqttVars, taskVars, entryVars, timer,
                   last_update_success, ingRobot, ingRain, fresh, inflight>>
    /\ UNCHANGED <<callVars, retry, hassVars>>
    /\ Quiet

(***************************************************************************)
(* _async_handle_mqtt_message, on the event loop.  It has no await, so it  *)
(* runs to completion in one step of the loop.                             *)
(***************************************************************************)
\* msg.payload.decode() and json.loads(payload): which exception the two
\* raise, or the decoded value.
JsonLoads(p) ==
    IF p.kind = "invalid"
    THEN [exc |-> "JSONDecodeError", isObject |-> FALSE, obj |-> EmptyDict]
    ELSE [exc |-> "none", isObject |-> p.kind = "object", obj |-> p.obj]

\* A handler that updates the stored message in place (dict.update).
StatusUpdateMerge(st, obj) == Merge(st, obj)

\* self._status_data = data
StatusUpdate(st, obj) == obj

RainUpdateMerge(rn, obj) == Merge(rn, obj)

\* self._rain_data = data
RainUpdate(rn, obj) == obj

\* The union taken the other way round: the robot-status fields win.
CombinedRobotWins(st, rn) == Merge(rn, st)

\* combined_data = {**self._status_data, **self._rain_data}
Combined(st, rn) == Merge(st, rn)

\* _update_device_info(data)
UpdateDeviceInfo(obj) ==
    [f \in {"model", "sw_version"} |->
        IF f = "model" THEN Get(obj, "model", NoValue) ELSE Get(obj, "version", NoValue)]

\* A handler with the JSONDecodeError clause alone.
HandlerEscapesNonJson(exc) == IF exc = "JSONDecodeError" THEN "none" ELSE exc

\* The except clauses of the handler: which exceptions it lets out.
HandlerEscapes(exc) == "none"

\* The handler's effect on <<status, rain>> and what it publishes.  A value
\* that is not an object has no get(): the AttributeError is caught like the
\* JSONDecodeError, before anything was assigned.
HandleMessage(p, st, rn) ==
    LET j == JsonLoads(p)
        unchanged(e) == [status |-> st, rain |-> rn, publish |-> FALSE,
                         op |-> IF e = "none" THEN "handle_ignored" ELSE "handle_dropped",
                         exc |-> HandlerEscapes(e)]
    IN  IF j.exc # "none" THEN unchanged(j.exc)
        ELSE IF ~j.isObject THEN unchanged("AttributeError")
        ELSE IF IsRobotStatus(j.obj)
             THEN [status |-> StatusUpdate(st, j.obj), rain |-> rn, publish |-> TRUE,
                   op |-> "handle_robot", exc |-> "none"]
        ELSE IF IsRainStatus(j.obj)
             THEN [status |-> st, rain |-> RainUpdate(rn, j.obj), publish |-> TRUE,
                   op |-> "handle_rain", exc |-> "none"]
        ELSE unchanged("none")

\* A loop that runs the coroutine handed over last.
NextScheduledLast(q) == Len(q)

\* Which coroutine of the loop's queue runs next: call_soon_threadsafe keeps
\* the hand-off order.
NextScheduled(q) == 1

RemoveAt(q, i) == SubSeq(q, 1, i - 1) \o SubSeq(q, i + 1, Len(q))

\* A handler that derives the device identity from every robot-status message.
DeviceInfoMissingAlways(d) == TRUE

\* if self._device_info is None
DeviceInfoMissing(d) == d = None

LoopRunMessage(p) ==
    LET h == HandleMessage(p, status_data, rain_data)
    IN  /\ status_data' = h.status
        /\ rain_data' = h.rain
        \* async_set_updated_data: cancels the pending timer, stores and
        \* publishes the snapshot, re-arms the timer if anyone listens.
        /\ data' = IF h.publish THEN Combined(h.status, h.rain) ELSE data
        /\ last_update_success' = IF h.publish THEN TRUE ELSE last_update_success
        /\ timer' = IF h.publish THEN listeners ELSE timer
        /\ device_info' = IF h.op = "handle_robot" /\ DeviceInfoMissing(device_info)
                          THEN UpdateDeviceInfo(JsonLoads(p).obj) ELSE device_info
        /\ ingRobot' = IF h.op = "handle_robot" THEN JsonLoads(p).obj ELSE ingRobot
        /\ ingRain' = IF h.op = "handle_rain" THEN JsonLoads(p).obj ELSE ingRain
        /\ fresh' = IF h.publish /\ refresh.pc # "idle" THEN TRUE ELSE fresh
        /\ ev' = Event("loop", h.op, h.publish, h.exc, NoPub)
        /\ UNCHANGED <<initTasks, arrRobot, arrRain, older, inflight>>

\* The event loop runs the coroutine it was handed: a message handler, or
\* _async_request_initial_status up to its first sleep.
LoopRun ==
    /\ loopQueue # <<>>
    /\ LET i == NextScheduled(loopQueue)
           c == loopQueue[i]
       IN  /\ loopQueue' = RemoveAt(loopQueue, i)
           /\ IF c.kind = "msg"
              THEN LoopRunMessage(c.payload)
              ELSE /\ initTasks' = Append(initTasks, "sleep1")
                   /\ ev' = Event("loop", "initial", FALSE, "none", NoPub)
                   /\ UNCHANGED <<cacheVars, timer, last_update_success, ghostVars, fresh>>
    /\ UNCHANGED <<mqttVars, refresh, cmdTask, entryVars, left>>
    /\ UNCHANGED <<callVars, retry, hassVars>>
    /\ Quiet

(***************************************************************************)
(* async_send_command and the coroutines that call it.  The publish runs   *)
(* as an executor job: it is dispatched by the event loop after the check  *)
(* and executed later by an executor thread.                               *)
(***************************************************************************)
\* A check of the client reference alone.
CanSendClientOnly(client, conn) == client

\* not (not self._mqtt_client or not self._connected)
CanSend(client, conn) == client /\ conn

\* _async_request_initial_status after one of its sleeps: the next send.
InitTaskSend(i) ==
    /\ i \in 1..Len(initTasks)
    /\ initTasks[i] \in {"sleep1", "sleep05"}
    /\ IF CanSend(mqtt_client, connected)
       THEN /\ initTasks' = [initTasks EXCEPT ![i] = IF @ = "sleep1" THEN "pub200" ELSE "pub205"]
            /\ ev' = Event("loop", "initial_send", FALSE, "none", NoPub)
       ELSE /\ initTasks' = RemoveAt(initTasks, i)
            /\ ev' = Event("loop", "initial_send", FALSE, "ConnectionError", NoPub)
    /\ UNCHANGED <<cacheVars, mqttVars, loopQueue, refresh, cmdTask, entryVars, timer,
                   last_update_success, ghostVars, fresh, left>>
    /\ UNCHANGED <<callVars, retry, hassVars>>
    /\ Quiet

\* The executor runs the publish job of an initial status request.
ExecutorPublishInit(i, ok) ==
    /\ i \in 1..Len(initTasks)
    /\ initTasks[i] \in {"pub200", "pub205"}
    /\ IF ok /\ initTasks[i] = "pub200"
       THEN initTasks' = [initTasks EXCEPT ![i] = "sleep05"]
       ELSE initTasks' = RemoveAt(initTasks, i)
    /\ ev' = IF ok
             THEN Event("executor", "publish", FALSE, "none",
                        IF initTasks[i] = "pub200" THEN CMD_STATUS_UPDATE ELSE CMD_RAIN_DELAY)
             ELSE Event("executor", "publish", FALSE, "PublishError", NoPub)
    /\ UNCHANGED <<cacheVars, mqttVars, loopQueue, refresh, cmdTask, entryVars, timer,
                   last_update_success, ghostVars, fresh, left>>
    /\ UNCHANGED <<callVars, retry, hassVars>>
    /\ Quiet

\* An encoder that adds a member of its own to the object.
JsonDumpsStamped(d) == {<<k, d[k]>> : k \in DOMAIN d} \cup {<<"ts", 0>>}

\* json.dumps(command): the text of a JSON object, its members.
JsonDumps(d) == {<<k, d[k]>> : k \in DOMAIN d}

\* async_send_command(c) up to its suspension: the check, then the publish
\* job is dispatched.
AsyncSendCommand(c) ==
    /\ entry # "new"
    /\ cmdTask = "idle"
    /\ left > 0
    /\ left' = left - 1
    /\ IF CanSend(mqtt_client, connected)
       THEN /\ cmdTask' = "pub"
            /\ command' = c
            /\ ev' = Event("loop", "send_command", FALSE, "none", NoPub)
       ELSE /\ cmdTask' = "idle"
            /\ command' = EmptyDict
            /\ ev' = Event("loop", "send_command", FALSE, "ConnectionError", NoPub)
    /\ UNCHANGED <<cacheVars, mqttVars, loopQueue, initTasks, refresh, entryVars, timer,
                   last_update_success, ghostVars, fresh, shutdowns, retry, hassVars>>
    /\ published' = NoMessage

\* An entity calls async_send_command: async_start_mowing.
SendCommand == AsyncSendCommand(CMD_START_MOWING) /\ call' = None

\* The executor runs the publish job of the command.
ExecutorPublishCmd(ok) ==
    /\ cmdTask = "pub"
    /\ cmdTask' = "idle"
    /\ command' = EmptyDict
    /\ published' = IF ok THEN [topic |-> TOPIC_COMMAND, payload |-> JsonDumps(command)]
                          ELSE NoMessage
    /\ call' = None
    /\ ev' = IF ok THEN Event("executor", "publish", FALSE, "none", command["cmd"])
                   ELSE Event("executor", "publish", FALSE, "PublishError", NoPub)
    /\ UNCHANGED <<cacheVars, mqttVars, loopQueue, initTasks, refresh, entryVars, timer,
                   last_update_success, ghostVars, fresh, left, shutdowns, retry, hassVars>>

(***************************************************************************)
(* The lawn-mower entity and the services: each builds a command and       *)
(* awaits async_send_command with it.                                      *)
(***************************************************************************)
\* async_pause
AsyncPause == entry = "loaded" /\ AsyncSendCommand(CMD_STOP) /\ call' = None

\* async_dock
AsyncDock == entry = "loaded" /\ AsyncSendCommand(CMD_RETURN_DOCK) /\ call' = None

\* edge_cut_service: command = {"cmd": 101, "mode": 4}
EdgeCutService ==
    entry = "loaded" /\ AsyncSendCommand([cmd |-> 101, mode |-> 4]) /\ call' = None

\* A schedule of the working days alone.
DaysWorkweek == <<"Mon", "Tue", "Wed", "Thu", "Fri">>

\* days = ["Mon", "Tue", "Wed", "Thu", "Fri", "Sat", "Sun"]
Days == <<"Mon", "Tue", "Wed", "Thu", "Fri", "Sat", "Sun">>

\* day.lower()
Lower(day) ==
    CASE day = "Mon" -> "mon" [] day = "Tue" -> "tue" [] day = "Wed" -> "wed"
      [] day = "Thu" -> "thu" [] day = "Fri" -> "fri" [] day = "Sat" -> "sat"
      [] day = "Sun" -> "sun" [] OTHER -> day

\* The values a slot may carry as its start or end: an int, a string of
\* digits, a string that is no number, and None.
SlotValues ==
    {[kind |-> "int", v |-> 8], [kind |-> "digits", v |-> 9],
     [kind |-> "text", v |-> 0], [kind |-> "none", v |-> 0]}

\* A coercion that maps what is no number to 0.
IntOfLenient(x) == [exc |-> "none", v |-> x.v]

\* int(x): the integer, or the exception int raises.
IntOf(x) ==
    IF x.kind \in {"int", "digits"} THEN [exc |-> "none", v |-> x.v]
    ELSE IF x.kind = "text" THEN [exc |-> "ValueError", v |-> 0]
    ELSE [exc |-> "TypeError", v |-> 0]

\* {"start": int(slot["start"]), "end": int(slot["end"])}
SlotEntry(slot) ==
    IF "start" \notin DOMAIN slot THEN [exc |-> "KeyError", v |-> EmptyDict]
    ELSE IF IntOf(slot["start"]).exc # "none"
    THEN [exc |-> IntOf(slot["start"]).exc, v |-> EmptyDict]
    ELSE IF "end" \notin DOMAIN slot THEN [exc |-> "KeyError", v |-> EmptyDict]
    ELSE IF IntOf(slot["end"]).exc # "none"
    THEN [exc |-> IntOf(slot["end"]).exc, v |-> EmptyDict]
    ELSE [exc |-> "none", v |-> [f \in {"start", "end"} |-> IntOf(slot[f]).v]]

\* The entry of a supplied day: the slice list and the trimming flag, or the
\* exception of the first slot that raises.
DayEntry(ds) ==
    LET slots == Get(ds, "slots", <<>>)
        bad == {i \in 1..Len(slots) : SlotEntry(slots[i]).exc # "none"}
    IN  IF bad # {}
        THEN [exc |-> SlotEntry(slots[CHOOSE i \in bad : \A j \in bad : i <= j]).exc,
              v |-> EmptyDict]
        ELSE [exc |-> "none",
              v |-> [f \in {"slice", "trimming"} |->
                        IF f = "slice" THEN [i \in 1..Len(slots) |-> SlotEntry(slots[i]).v]
                        ELSE Get(ds, "trimming", TRUE)]]

\* schedule_data as set_schedule_service builds it from call.data, or the
\* exception of the first day that raises.
ScheduleData(c) ==
    LET bad == {i \in 1..Len(Days) :
                    /\ Lower(Days[i]) \in DOMAIN c
                    /\ DayEntry(c[Lower(Days[i])]).exc # "none"}
    IN  IF bad # {}
        THEN [exc |-> DayEntry(c[Lower(Days[CHOOSE i \in bad : \A j \in bad : i <= j])]).exc,
              data |-> EmptyDict]
        ELSE [exc |-> "none",
              data |-> [k \in {"cmd", "auto", "pause"} \cup {Days[i] : i \in 1..Len(Days)} |->
                          IF k = "cmd" THEN 103
                          ELSE IF k \in {"auto", "pause"} THEN Get(c, k, FALSE)
                          ELSE IF Lower(k) \in DOMAIN c THEN DayEntry(c[Lower(k)]).v
                          ELSE EmptyDict]]

\* set_schedule_service(call): builds the schedule, then awaits
\* async_send_command; an exception of the construction leaves the handler
\* before the send.
SetScheduleService(c) ==
    /\ entry = "loaded"
    /\ call' = c
    /\ LET r == ScheduleData(c)
       IN  IF r.exc = "none"
           THEN AsyncSendCommand(r.data)
           ELSE /\ cmdTask = "idle"
                /\ left > 0
                /\ left' = left - 1
                /\ ev' = Event("loop", "set_schedule", FALSE, r.exc, NoPub)
                /\ published' = NoMessage
                /\ UNCHANGED <<cacheVars, mqttVars, loopQueue, taskVars, entryVars, timer,
                               last_update_success, ghostVars, fresh, shutdowns,
                               command, retry, hassVars>>

\* The call.data of the set_schedule calls of the model.
GoodSlot == [f \in {"start", "end"} |-> IF f = "start" THEN [kind |-> "int", v |-> 8]
                                                    ELSE [kind |-> "digits", v |-> 9]]

Slots ==
    {[f \in {"start", "end"} |-> IF f = "start" THEN a ELSE b] :
        a \in SlotValues, b \in {[kind |-> "int", v |-> 8]}}
    \cup {[f \in {"start", "end"} |-> IF f = "start" THEN a ELSE b] :
            a \in {[kind |-> "digits", v |-> 9]}, b \in SlotValues}
    \cup {[f \in {"start"} |-> [kind |-> "int", v |-> 8]]}

DaySchedules ==
    {EmptyDict, [f \in {"trimming"} |-> FALSE], [f \in {"slots"} |-> <<>>]}
    \cup {[f \in {"slots"} |-> <<s>>] : s \in Slots}
    \cup {[f \in {"slots"} |-> <<GoodSlot, s>>] : s \in Slots}
    \cup {[f \in {"slots", "trimming"} |-> IF f = "slots" THEN <<GoodSlot>> ELSE FALSE]}

DayKeys == {Lower(Days[i]) : i \in 1..Len(Days)}

ScheduleCalls ==
    {[k \in S |-> [f \in {"slots"} |-> <<GoodSlot>>]] : S \in SUBSET DayKeys}
    \cup {[k \in {d} |-> ds] : d \in {"mon", "sun"}, ds \in DaySchedules}
    \cup {[k \in {"mon", "sun"} |-> IF k = d THEN ds ELSE [f \in {"slots"} |-> <<GoodSlot>>]] :
            d \in {"mon", "sun"}, ds \in DaySchedules}
    \cup {[k \in {a} |-> TRUE] : a \in {"auto", "pause"}}

(***************************************************************************)
(* The refresh: DataUpdateCoordinator._async_refresh around                *)
(* _async_update_data.                                                     *)
(***************************************************************************)
\* A failure that ends the schedule: no timer is armed after it.
RefreshFailsEndsSchedule(r) ==
    /\ refresh' = [r EXCEPT !.pc = "idle", !.result = "failed"]
    /\ last_update_success' = FALSE
    /\ timer' = FALSE
    /\ ev' = Event("loop", "refresh_failed", last_update_success, "UpdateFailed", NoPub)
    /\ retry' = "failed"
    /\ UNCHANGED data

\* raise UpdateFailed: the coordinator records the failure, tells the
\* listeners if the previous refresh had succeeded, and re-arms the timer
\* if anyone listens.
RefreshFails(r) ==
    /\ refresh' = [r EXCEPT !.pc = "idle", !.result = "failed"]
    /\ last_update_success' = FALSE
    /\ timer' = listeners
    /\ ev' = Event("loop", "refresh_failed", last_update_success, "UpdateFailed", NoPub)
    /\ retry' = "failed"
    /\ UNCHANGED data

\* _async_update_data up to its first suspension.  scheduled: the timer
\* fired; otherwise the first refresh of the setup or a requested one.
\* The flag is read at line 184 and again inside async_send_command; a
\* write of the MQTT thread between the two reads yields UpdateFailed
\* without a publish, as reading it cleared at line 184 does.
RefreshStart(scheduled) ==
    /\ refresh.pc = "idle"
    /\ left > 0
    /\ IF scheduled THEN timer ELSE entry = "loaded"
    /\ left' = left - 1
    /\ IF connected /\ CanSend(mqtt_client, connected)
       THEN /\ refresh' = [pc |-> "pub200", s200 |-> FALSE, s205 |-> FALSE, result |-> "none"]
            /\ timer' = FALSE
            /\ fresh' = FALSE
            /\ retry' = IF scheduled /\ retry = "failed" THEN "tick" ELSE "none"
            /\ ev' = Event("loop", "refresh", FALSE, "none", NoPub)
            /\ UNCHANGED <<data, last_update_success>>
       ELSE /\ RefreshFails(IdleRefresh)
            /\ UNCHANGED fresh
    /\ UNCHANGED <<status_data, rain_data, device_info, mqttVars, loopQueue, initTasks,
                   cmdTask, entryVars, ghostVars>>
    /\ UNCHANGED <<callVars, hassVars>>
    /\ Quiet

\* The executor runs the publish job of the refresh.
ExecutorPublishRefresh(ok) ==
    /\ refresh.pc \in {"pub200", "pub205"}
    /\ refresh' = IF ~ok THEN [refresh EXCEPT !.pc = "err"]
                  ELSE IF refresh.pc = "pub200"
                       THEN [refresh EXCEPT !.pc = "sleep", !.s200 = TRUE]
                       ELSE [refresh EXCEPT !.pc = "ret205", !.s205 = TRUE]
    /\ ev' = IF ok
             THEN Event("executor", "publish", FALSE, "none",
                        IF refresh.pc = "pub200" THEN CMD_STATUS_UPDATE ELSE CMD_RAIN_DELAY)
             ELSE Event("executor", "publish", FALSE, "none", NoPub)
    /\ UNCHANGED <<cacheVars, mqttVars, loopQueue, initTasks, cmdTask, entryVars, timer,
                   last_update_success, ghostVars, fresh, left>>
    /\ UNCHANGED <<callVars, retry, hassVars>>
    /\ Quiet

\* A refresh that fills in a mode when the cache has none.
UpdateDataResultPlaceholder(st, rn) == Merge([f \in {"mode"} |-> 0], Combined(st, rn))

\* A refresh that returns the robot-status message alone.
UpdateDataResultStatusOnly(st, rn) == st

\* return combined_data
UpdateDataResult(st, rn) == Combined(st, rn)

\* A refresh that goes on to the rain request after a publish that raised.
RefreshResumeAfterError ==
    /\ refresh.pc \in {"sleep", "err", "ret205"}
    /\ IF refresh.pc \in {"sleep", "err"} /\ CanSend(mqtt_client, connected)
       THEN /\ refresh' = [refresh EXCEPT !.pc = "pub205"]
            /\ ev' = Event("loop", "refresh", FALSE, "none", NoPub)
            /\ UNCHANGED <<data, last_update_success, timer, retry>>
       ELSE IF refresh.pc = "ret205"
       THEN /\ refresh' = [refresh EXCEPT !.pc = "idle", !.result = "ok"]
            /\ data' = UpdateDataResult(status_data, rain_data)
            /\ last_update_success' = TRUE
            /\ timer' = listeners
            /\ retry' = IF retry = "tick" THEN "recovered" ELSE "none"
            /\ ev' = Event("loop", "refresh_ok", TRUE, "none", NoPub)
       ELSE RefreshFails(refresh)
    /\ UNCHANGED <<status_data, rain_data, device_info, mqttVars, loopQueue, initTasks,
                   cmdTask, entryVars, ghostVars, fresh, left>>
    /\ UNCHANGED <<callVars, hassVars>>
    /\ Quiet

\* _async_update_data resumes on the event loop: after the sleep it sends
\* the rain request; after a failed publish it raises UpdateFailed; after
\* the second publish it returns the merged cache.
RefreshResume ==
    /\ refresh.pc \in {"sleep", "err", "ret205"}
    /\ IF refresh.pc = "sleep" /\ CanSend(mqtt_client, connected)
       THEN /\ refresh' = [refresh EXCEPT !.pc = "pub205"]
            /\ ev' = Event("loop", "refresh", FALSE, "none", NoPub)
            /\ UNCHANGED <<data, last_update_success, timer, retry>>
       ELSE IF refresh.pc = "ret205"
       THEN /\ refresh' = [refresh EXCEPT !.pc = "idle", !.result = "ok"]
            /\ data' = UpdateDataResult(status_data, rain_data)
            /\ last_update_success' = TRUE
            /\ timer' = listeners
            /\ retry' = IF retry = "tick" THEN "recovered" ELSE "none"
            /\ ev' = Event("loop", "refresh_ok", TRUE, "none", NoPub)
       ELSE RefreshFails(refresh)
    /\ UNCHANGED <<status_data, rain_data, device_info, mqttVars, loopQueue, initTasks,
                   cmdTask, entryVars, ghostVars, fresh, left>>
    /\ UNCHANGED <<callVars, hassVars>>
    /\ Quiet

(***************************************************************************)
(* async_setup_entry and async_unload_entry / async_shutdown.              *)
(***************************************************************************)
\* async_setup -> _setup_mqtt in the executor: creates the client; if the
\* connect succeeds it starts the loop thread, otherwise it logs the error.
SetupMqtt(ok) ==
    /\ entry = "new"
    /\ mqtt_client' = TRUE
    /\ thread' = ok
    /\ entry' = "stored"
    /\ ev' = Event("executor", "setup_mqtt", FALSE, "none", NoPub)
    /\ UNCHANGED <<cacheVars, connected, subscribed, loopQueue, taskVars, unload_ok,
                   listeners, timer, last_update_success, ghostVars, fresh, left>>
    /\ UNCHANGED <<callVars, retry, hassVars>>
    /\ Quiet

\* async_forward_entry_setups: the entities subscribe to the coordinator,
\* and the first listener arms the refresh timer.
ForwardEntrySetups ==
    /\ entry = "stored"
    /\ entry' = "loaded"
    /\ listeners' = TRUE
    /\ timer' = TRUE
    /\ ev' = Event("loop", "forward", FALSE, "none", NoPub)
    /\ UNCHANGED <<cacheVars, mqttVars, loopQueue, taskVars, unload_ok,
                   last_update_success, ghostVars, fresh, left>>
    /\ UNCHANGED <<callVars, retry, hassVars>>
    /\ Quiet

\* What async_shutdown does with the pending refresh timer: it overrides
\* DataUpdateCoordinator.async_shutdown and leaves the timer alone.
ShutdownTimer(t) == t

\* async_unload_entry up to its first suspension: async_unload_platforms
\* returns true (the entities are removed, and removing the last listener
\* cancels the timer), returns false or raises (the entities stay).
UnloadPlatforms(r) ==
    /\ entry = "loaded"
    /\ entry' = "platforms_unloaded"
    /\ unload_ok' = (r = "ok")
    /\ listeners' = IF r = "ok" THEN FALSE ELSE listeners
    /\ timer' = IF r = "ok" THEN FALSE ELSE timer
    /\ inflight' = (refresh.pc # "idle")
    /\ ev' = Event("loop", "unload", FALSE, "none", NoPub)
    /\ UNCHANGED <<cacheVars, mqttVars, loopQueue, taskVars, last_update_success,
                   arrRobot, arrRain, older, ingRobot, ingRain, fresh, left>>
    /\ UNCHANGED <<callVars, retry, hassVars>>
    /\ Quiet

\* async_shutdown up to its first suspension: with a client it clears the
\* flag and dispatches loop_stop; without one it returns at once and
\* async_unload_entry finishes.
\* A shutdown that goes on without looking at the client reference.
ShutdownHasClientAlways(client) == TRUE

\* if self._mqtt_client:
ShutdownHasClient(client) == client

ShutdownBegin ==
    /\ entry = "platforms_unloaded"
    /\ IF ShutdownHasClient(mqtt_client)
       THEN /\ connected' = FALSE
            /\ entry' = "sd_loop_stop"
       ELSE /\ entry' = "unloaded"
            /\ UNCHANGED connected
    /\ timer' = ShutdownTimer(timer)
    /\ ev' = Event("loop", "shutdown", FALSE, "none", NoPub)
    /\ UNCHANGED <<cacheVars, mqtt_client, thread, subscribed, loopQueue, taskVars,
                   unload_ok, listeners, last_update_success, ghostVars, fresh, left>>
    /\ UNCHANGED <<callVars, retry, hassVars>>
    /\ Quiet

\* The executor runs loop_stop: the loop thread is joined.  The coroutine
\* then reads self._mqtt_client.disconnect to dispatch it; if another call
\* has cleared the reference meanwhile, the AttributeError is caught and
\* logged and the call ends.
ExecutorLoopStop ==
    /\ entry = "sd_loop_stop"
    /\ thread' = FALSE
    /\ entry' = IF mqtt_client THEN "sd_disconnect" ELSE "unloaded"
    /\ ev' = Event("executor", IF mqtt_client THEN "loop_stop" ELSE "shutdown_error",
                   FALSE, "none", NoPub)
    /\ UNCHANGED <<cacheVars, mqtt_client, connected, subscribed, loopQueue, taskVars,
                   unload_ok, listeners, timer, last_update_success, ghostVars, fresh, left>>
    /\ UNCHANGED <<callVars, retry, hassVars>>
    /\ Quiet

\* The executor runs disconnect: the broker session ends.
ExecutorDisconnect ==
    /\ entry = "sd_disconnect"
    /\ subscribed' = FALSE
    /\ entry' = "sd_clear"
    /\ ev' = Event("executor", "client_disconnect", FALSE, "none", NoPub)
    /\ UNCHANGED <<cacheVars, mqtt_client, connected, thread, loopQueue, taskVars,
                   unload_ok, listeners, timer, last_update_success, ghostVars, fresh, left>>
    /\ UNCHANGED <<callVars, retry, hassVars>>
    /\ Quiet

\* async_shutdown clears the client reference and async_unload_entry
\* removes the entry and returns.
ShutdownEnd ==
    /\ entry = "sd_clear"
    /\ mqtt_client' = FALSE
    /\ entry' = "unloaded"
    /\ ev' = Event("loop", "shutdown", FALSE, "none", NoPub)
    /\ UNCHANGED <<cacheVars, connected, thread, subscribed, loopQueue, taskVars,
                   unload_ok, listeners, timer, last_update_success, ghostVars, fresh, left>>
    /\ UNCHANGED <<callVars, retry, hassVars>>
    /\ Quiet

(***************************************************************************)
(* A further call of async_shutdown, which may overlap the one of          *)
(* async_unload_entry or another one: the same steps, each call with its   *)
(* own position.                                                           *)
(***************************************************************************)
ShutdownCall ==
    /\ left > 0
    /\ left' = left - 1
    /\ IF ShutdownHasClient(mqtt_client)
       THEN /\ connected' = FALSE
            /\ shutdowns' = Append(shutdowns, "loop_stop")
       ELSE UNCHANGED <<connected, shutdowns>>
    /\ ev' = Event("loop", "shutdown", FALSE, "none", NoPub)
    /\ UNCHANGED <<cacheVars, mqtt_client, thread, subscribed, loopQueue, taskVars,
                   entryVars, timer, last_update_success, ghostVars, fresh, command,
                   retry, hassVars>>
    /\ Quiet

ShutdownLoopStop(i) ==
    /\ i \in 1..Len(shutdowns)
    /\ shutdowns[i] = "loop_stop"
    /\ thread' = FALSE
    /\ shutdowns' = IF mqtt_client THEN [shutdowns EXCEPT ![i] = "disconnect"]
                                   ELSE RemoveAt(shutdowns, i)
    /\ ev' = Event("executor", IF mqtt_client THEN "loop_stop" ELSE "shutdown_error",
                   FALSE, "none", NoPub)
    /\ UNCHANGED <<cacheVars, mqtt_client, connected, subscribed, loopQueue, taskVars,
                   entryVars, timer, last_update_success, ghostVars, fresh, left,
                   command, retry, hassVars>>
    /\ Quiet

ShutdownDisconnect(i) ==
    /\ i \in 1..Len(shutdowns)
    /\ shutdowns[i] = "disconnect"
    /\ subscribed' = FALSE
    /\ shutdowns' = [shutdowns EXCEPT ![i] = "clear"]
    /\ ev' = Event("executor", "client_disconnect", FALSE, "none", NoPub)
    /\ UNCHANGED <<cacheVars, mqtt_client, connected, thread, loopQueue, taskVars,
                   entryVars, timer, last_update_success, ghostVars, fresh, left,
                   command, retry, hassVars>>
    /\ Quiet

ShutdownClear(i) ==
    /\ i \in 1..Len(shutdowns)
    /\ shutdowns[i] = "clear"
    /\ mqtt_client' = FALSE
    /\ shutdowns' = RemoveAt(shutdowns, i)
    /\ ev' = Event("loop", "shutdown_done", FALSE, "none", NoPub)
    /\ UNCHANGED <<cacheVars, connected, thread, subscribed, loopQueue, taskVars,
                   entryVars, timer, last_update_success, ghostVars, fresh, left,
                   command, retry, hassVars>>
    /\ Quiet

(***************************************************************************)
(* The specification.                                                      *)
(***************************************************************************)
Next ==
    \/ \E rc \in {0, 5} : on_mqtt_connect(rc)
    \/ on_mqtt_disconnect
    \/ \E p \in CorePayloads : on_mqtt_message(p)
    \/ LoopRun
    \/ \E i \in 1..MaxInputs : InitTaskSend(i)
    \/ \E i \in 1..MaxInputs, ok \in BOOLEAN : ExecutorPublishInit(i, ok)
    \/ SendCommand
    \/ \E ok \in BOOLEAN : ExecutorPublishCmd(ok)
    \/ \E scheduled \in BOOLEAN : RefreshStart(scheduled)
    \/ \E ok \in BOOLEAN : ExecutorPublishRefresh(ok)
    \/ RefreshResume
    \/ \E ok \in BOOLEAN : SetupMqtt(ok)
    \/ ForwardEntrySetups
    \/ \E r \in {"ok", "false", "raise"} : UnloadPlatforms(r)
    \/ ShutdownBegin
    \/ ExecutorLoopStop
    \/ ExecutorDisconnect
    \/ ShutdownEnd

Spec == Init /\ [][Next]_vars

\* The status cache under every payload: the MQTT thread, the message
\* handler and the refresh, which are the writers of the cache and of the
\* queue of the loop, interleaved with commands.
NextCache ==
    \/ \E ok \in BOOLEAN : SetupMqtt(ok)
    \/ ForwardEntrySetups
    \/ \E rc \in {0, 5} : on_mqtt_connect(rc)
    \/ on_mqtt_disconnect
    \/ \E p \in Payloads : on_mqtt_message(p)
    \/ LoopRun
    \/ \E scheduled \in BOOLEAN : RefreshStart(scheduled)
    \/ \E ok \in BOOLEAN : ExecutorPublishRefresh(ok)
    \/ RefreshResume
    \/ SendCommand
    \/ \E ok \in BOOLEAN : ExecutorPublishCmd(ok)

SpecCache == InitCache /\ [][NextCache]_vars

\* The teardown: the unload of the entry and further calls of
\* async_shutdown, interleaved with the callbacks of the MQTT thread.
InitShutdown == Constructed(MaxShutdownInputs)

NextShutdown ==
    \/ \E ok \in BOOLEAN : SetupMqtt(ok)
    \/ ForwardEntrySetups
    \/ \E rc \in {0, 5} : on_mqtt_connect(rc)
    \/ on_mqtt_disconnect
    \/ \E r \in {"ok", "false", "raise"} : UnloadPlatforms(r)
    \/ ShutdownBegin
    \/ ExecutorLoopStop
    \/ ExecutorDisconnect
    \/ ShutdownEnd
    \/ ShutdownCall
    \/ \E i \in 1..MaxShutdownInputs : ShutdownLoopStop(i)
    \/ \E i \in 1..MaxShutdownInputs : ShutdownDisconnect(i)
    \/ \E i \in 1..MaxShutdownInputs : ShutdownClear(i)

SpecShutdown == InitShutdown /\ [][NextShutdown]_vars

\* The commands: the calls of the lawn-mower entity and of the services and
\* the publish jobs they dispatch, interleaved with the callbacks of the
\* MQTT thread.
InitCommands == Constructed(MaxCommandInputs)

NextCommands ==
    \/ \E ok \in BOOLEAN : SetupMqtt(ok)
    \/ ForwardEntrySetups
    \/ \E rc \in {0, 5} : on_mqtt_connect(rc)
    \/ on_mqtt_disconnect
    \/ SendCommand
    \/ AsyncPause
    \/ AsyncDock
    \/ EdgeCutService
    \/ \E c \in ScheduleCalls : SetScheduleService(c)
    \/ \E ok \in BOOLEAN : ExecutorPublishCmd(ok)

SpecCommands == InitCommands /\ [][NextCommands]_vars

\* The device identity: the MQTT thread and the message handler under
\* status messages that carry a model and a version, or neither.
InitIdentity == Constructed(MaxIdentityInputs)

NextIdentity ==
    \/ \E ok \in BOOLEAN : SetupMqtt(ok)
    \/ \E rc \in {0, 5} : on_mqtt_connect(rc)
    \/ on_mqtt_disconnect
    \/ \E p \in IdentityPayloads : on_mqtt_message(p)
    \/ LoopRun

SpecIdentity == InitIdentity /\ [][NextIdentity]_vars

(***************************************************************************)
(* async_setup_entry, async_unload_entry and async_setup_services over two *)
(* config entries.  Each await is a point where the other entry's setup or *)
(* unload may run; between two awaits a coroutine runs alone on the loop.  *)
(* A coordinator is a number: the n-th one built.                          *)
(***************************************************************************)
\* len(hass.data[DOMAIN]) == 1
IsFirstEntry(reg) == Cardinality(DOMAIN reg) = 1

\* An unload that removes the services with every entry.
RegistryEmptyAlways(reg) == TRUE

\* not hass.data[DOMAIN]
RegistryEmpty(reg) == DOMAIN reg = {}

\* async_setup_services: the three handlers close over the coordinator
\* argument; nothing is registered when set_schedule already is.
Handlers(c) == [s \in ServiceNames |-> c]

async_setup_services(svc, c) ==
    IF "set_schedule" \in DOMAIN svc THEN svc ELSE Handlers(c)

\* coordinator = SunseekerCoordinator(...) and the call of async_setup.
BuildCoordinator(e) ==
    /\ coordinators' = [coordinators EXCEPT !.created = @ + 1]
    /\ setup' = [setup EXCEPT ![e] =
                    [Idle(setup[e].state) EXCEPT !.pc = "async_setup",
                                                 !.coordinator = coordinators.created + 1]]

\* async_setup_entry is called for an entry that is not loaded.  An entry
\* found in the registry is unloaded first.
SetupEntry(e) ==
    /\ setup[e].pc = "idle"
    /\ setup[e].state \in {"not_loaded", "setup_error"}
    /\ left > 0
    /\ left' = left - 1
    /\ IF e \in DOMAIN Registry(hass_data)
       THEN /\ setup' = [setup EXCEPT ![e] =
                            [Idle(setup[e].state) EXCEPT !.pc = "unload_platforms",
                                                         !.coordinator = Registry(hass_data)[e],
                                                         !.nested = TRUE]]
            /\ UNCHANGED coordinators
       ELSE BuildCoordinator(e)
    /\ UNCHANGED <<coordinatorVars, flowVars, entityVars, hass_data, services>>

\* coordinator.async_setup() returns: the coordinator is stored under the
\* entry id; or it raises and the setup returns False.
AsyncSetupReturns(e, ok) ==
    /\ setup[e].pc = "async_setup"
    /\ IF ok
       THEN /\ hass_data' = [d \in {SunseekerDomain} |->
                                [x \in DOMAIN Registry(hass_data) \cup {e} |->
                                    IF x = e THEN setup[e].coordinator
                                    ELSE Registry(hass_data)[x]]]
            /\ setup' = [setup EXCEPT ![e].pc = "forward_entry_setups"]
       ELSE /\ setup' = [setup EXCEPT ![e].pc = "idle", ![e].state = "setup_error",
                                      ![e].ret = "false"]
            /\ UNCHANGED hass_data
    /\ UNCHANGED <<coordinatorVars, flowVars, entityVars, left, services, coordinators>>

\* async_forward_entry_setups returns: the "first entry" test and the
\* registration of the services run before the next await; or it raises and
\* the coordinator is shut down.
ForwardEntrySetupsReturns(e, ok) ==
    /\ setup[e].pc = "forward_entry_setups"
    /\ IF ok
       THEN /\ services' = IF IsFirstEntry(Registry(hass_data))
                           THEN async_setup_services(services, setup[e].coordinator)
                           ELSE services
            /\ setup' = [setup EXCEPT ![e].pc = "first_refresh"]
       ELSE /\ setup' = [setup EXCEPT ![e].pc = "cleanup"]
            /\ UNCHANGED services
    /\ UNCHANGED <<coordinatorVars, flowVars, entityVars, left, hass_data, coordinators>>

\* hass.data[DOMAIN].pop(entry.entry_id, None)
Pop(hd, e) ==
    IF SunseekerDomain \in DOMAIN hd
    THEN [d \in {SunseekerDomain} |->
            [x \in DOMAIN hd[SunseekerDomain] \ {e} |-> hd[SunseekerDomain][x]]]
    ELSE hd

\* The shutdown after a failed platform setup is over: the entry is popped
\* and the setup returns False.
CleanupReturns(e) ==
    /\ setup[e].pc = "cleanup"
    /\ coordinators' = [coordinators EXCEPT !.shut = @ \cup {setup[e].coordinator}]
    /\ hass_data' = Pop(hass_data, e)
    /\ setup' = [setup EXCEPT ![e].pc = "idle", ![e].state = "setup_error",
                              ![e].ret = "false"]
    /\ UNCHANGED <<coordinatorVars, flowVars, entityVars, left, services>>

\* async_config_entry_first_refresh is over, whatever its outcome: the
\* setup returns True.
FirstRefreshReturns(e) ==
    /\ setup[e].pc = "first_refresh"
    /\ setup' = [setup EXCEPT ![e].pc = "idle", ![e].state = "loaded", ![e].ret = "true"]
    /\ UNCHANGED <<coordinatorVars, flowVars, entityVars, left, hass_data, services, coordinators>>

\* async_unload_entry is called: for a loaded entry, or for one that is
\* not in the registry.  It reads the entry's coordinator and awaits the
\* unloading of the platforms.
UnloadEntry(e) ==
    /\ setup[e].pc = "idle"
    /\ left > 0
    /\ left' = left - 1
    /\ setup' = [setup EXCEPT ![e] =
                    [Idle(setup[e].state) EXCEPT !.pc = "unload_platforms",
                                                 !.coordinator =
                                                     Get(Registry(hass_data), e, NoCoordinator)]]
    /\ UNCHANGED <<coordinatorVars, flowVars, entityVars, hass_data, services, coordinators>>

\* The end of async_unload_entry: the entry is popped, the services are
\* removed when the registry is left empty, unload_ok is returned.  A
\* nested call goes on with the setup that made it.
UnloadReturns(e, r, shut) ==
    /\ hass_data' = Pop(hass_data, e)
    /\ services' = IF SunseekerDomain \in DOMAIN hass_data
                      /\ RegistryEmpty(Registry(Pop(hass_data, e)))
                   THEN EmptyDict ELSE services
    /\ IF setup[e].nested
       THEN /\ coordinators' = [created |-> coordinators.created + 1, shut |-> shut]
            /\ setup' = [setup EXCEPT ![e] =
                            [Idle(setup[e].state) EXCEPT !.pc = "async_setup",
                                                         !.coordinator = coordinators.created + 1]]
       ELSE /\ coordinators' = [coordinators EXCEPT !.shut = shut]
            /\ setup' = [setup EXCEPT ![e].pc = "idle",
                                      ![e].state = IF r = "true" THEN "not_loaded"
                                                   ELSE "failed_unload",
                                      ![e].platforms = r,
                                      ![e].unload_ok = (r = "true"),
                                      ![e].ret = IF r = "true" THEN "true" ELSE "false"]

\* async_unload_platforms returns True or False or raises.  A coordinator
\* that was found is shut down next; without one the unload ends here.
UnloadPlatformsReturns(e, r) ==
    /\ setup[e].pc = "unload_platforms"
    /\ IF setup[e].coordinator # NoCoordinator
       THEN /\ setup' = [setup EXCEPT ![e].pc = "async_shutdown", ![e].platforms = r,
                                      ![e].unload_ok = (r = "true")]
            /\ UNCHANGED <<hass_data, services, coordinators>>
       ELSE UnloadReturns(e, r, coordinators.shut)
    /\ UNCHANGED <<coordinatorVars, flowVars, entityVars, left>>

\* coordinator.async_shutdown() is over.
UnloadShutdownReturns(e) ==
    /\ setup[e].pc = "async_shutdown"
    /\ UnloadReturns(e, setup[e].platforms, coordinators.shut \cup {setup[e].coordinator})
    /\ UNCHANGED <<coordinatorVars, flowVars, entityVars, left>>

InitRegistry == Constructed(MaxRegistryInputs)

NextRegistry ==
    \/ \E e \in Entries : SetupEntry(e)
    \/ \E e \in Entries : \E ok \in BOOLEAN : AsyncSetupReturns(e, ok)
    \/ \E e \in Entries : \E ok \in BOOLEAN : ForwardEntrySetupsReturns(e, ok)
    \/ \E e \in Entries : CleanupReturns(e)
    \/ \E e \in Entries : FirstRefreshReturns(e)
    \/ \E e \in Entries : UnloadEntry(e)
    \/ \E e \in Entries : \E r \in {"true", "false", "raise"} : UnloadPlatformsReturns(e, r)
    \/ \E e \in Entries : UnloadShutdownReturns(e)

SpecRegistry == InitRegistry /\ [][NextRegistry]_vars

(***************************************************************************)
(* The config flow: validate_input and ConfigFlow.async_step_user.  A      *)
(* device id is a sequence of characters, a space, a tab or a letter.      *)
(***************************************************************************)
Whitespace == {" ", "\t"}
Chars == Whitespace \cup {"a"}
DeviceIds == UNION {[1..n -> Chars] : n \in 0..MaxIdLen}

RECURSIVE LStrip(_)
LStrip(s) == IF Len(s) > 0 /\ s[1] \in Whitespace THEN LStrip(Tail(s)) ELSE s

RECURSIVE RStrip(_)
RStrip(s) ==
    IF Len(s) > 0 /\ s[Len(s)] \in Whitespace THEN RStrip(SubSeq(s, 1, Len(s) - 1)) ELSE s

\* A validation that takes the device id as typed.
StripNothing(s) == s

\* str.strip(): the text without its leading and trailing whitespace.
Strip(s) == RStrip(LStrip(s))

\* validate_input: ValueError for an id that is empty once stripped.
validate_input(id) ==
    LET device_id == Strip(id)
    IN  IF Len(device_id) = 0
        THEN [exc |-> "ValueError", device_id |-> device_id]
        ELSE [exc |-> "none", device_id |-> device_id]

FlowResult(type, errors, id) == [type |-> type, errors |-> errors, device_id |-> id]

\* async_step_user(None): the form is shown, without errors.
ShowForm ==
    /\ left > 0
    /\ left' = left - 1
    /\ flow' = FlowResult("form", "none", <<>>)
    /\ UNCHANGED <<coordinatorVars, registryVars, entityVars, config_entries>>

\* async_step_user(user_input): the form again with the error after a
\* ValueError; an abort when the unique id, the device id as typed, is
\* configured already; else the entry is created with the user's input.
async_step_user(id) ==
    /\ left > 0
    /\ left' = left - 1
    /\ IF validate_input(id).exc = "ValueError"
       THEN /\ flow' = FlowResult("form", "invalid_device_id", id)
            /\ UNCHANGED config_entries
       ELSE IF id \in DOMAIN config_entries
       THEN /\ flow' = FlowResult("abort", "already_configured", id)
            /\ UNCHANGED config_entries
       ELSE /\ flow' = FlowResult("create_entry", "none", id)
            /\ config_entries' =
                  [u \in DOMAIN config_entries \cup {id} |->
                      IF u = id THEN [device_id |-> id, coordinator |-> FALSE]
                      ELSE config_entries[u]]
    /\ UNCHANGED <<coordinatorVars, registryVars, entityVars>>

\* async_setup_entry for a created entry: the coordinator is built for
\* entry.data[CONF_DEVICE_ID] and its connection is attempted.
SetupCreatedEntry(u) ==
    /\ u \in DOMAIN config_entries
    /\ ~config_entries[u].coordinator
    /\ config_entries' = [config_entries EXCEPT ![u].coordinator = TRUE]
    /\ UNCHANGED <<coordinatorVars, left, registryVars, entityVars, flow>>

InitFlow == Constructed(MaxFlowInputs)

NextFlow ==
    \/ ShowForm
    \/ \E id \in DeviceIds : async_step_user(id)
    \/ \E u \in DeviceIds : SetupCreatedEntry(u)

SpecFlow == InitFlow /\ [][NextFlow]_vars

(***************************************************************************)
(* SunseekerLawnMower.activity over the snapshots a robot-status message   *)
(* can leave.  A field's value is a JSON value: a number, a boolean, a     *)
(* text, null or an array; kind is its type and v the number it stands     *)
(* for (1 for true, for the text "1" and for the array [1]).               *)
(***************************************************************************)
JsonValue(kind, v) == [kind |-> kind, v |-> v]

ModeJson ==
    {JsonValue("int", n) : n \in {0, 1, 2, 3, 4}}
    \cup {JsonValue("bool", 0), JsonValue("bool", 1), JsonValue("text", 1),
          JsonValue("null", 0), JsonValue("array", 1)}

StationJson ==
    {JsonValue("bool", 0), JsonValue("bool", 1), JsonValue("int", 0),
     JsonValue("int", 1), JsonValue("text", 1)}

\* The robot-status messages: cmd 501, with or without mode and station.
Snapshots ==
    {[f \in {"cmd"} |-> JsonValue("int", RESP_ROBOT_STATUS)]}
    \cup {[f \in {"cmd", "mode"} |->
              IF f = "mode" THEN m ELSE JsonValue("int", RESP_ROBOT_STATUS)] : m \in ModeJson}
    \cup {[f \in {"cmd", "station"} |->
              IF f = "station" THEN s ELSE JsonValue("int", RESP_ROBOT_STATUS)] :
              s \in StationJson}
    \cup {[f \in {"cmd", "mode", "station"} |->
              IF f = "mode" THEN m
              ELSE IF f = "station" THEN s
              ELSE JsonValue("int", RESP_ROBOT_STATUS)] : m \in ModeJson, s \in StationJson}

\* bool(x)
Truthy(x) == x.kind \notin {"null", "missing"} /\ x.v # 0

\* hash(x) raises TypeError
Unhashable(x) == x.kind = "array"

\* MODE_TO_STATE.get(mode, default) for a hashable mode: True and False
\* are the keys 1 and 0.
MODE_TO_STATE(mode, default) ==
    IF mode.kind \in {"int", "bool"} /\ mode.v \in {1, 4} THEN "mowing"
    ELSE IF mode.kind \in {"int", "bool"} /\ mode.v = 2 THEN "docked"
    ELSE IF mode.kind \in {"int", "bool"} /\ mode.v = 0 THEN "paused"
    ELSE default

Returns(value) == [exc |-> "none", value |-> value]

\* The activity property for coordinator.data = d.
Activity(d) ==
    IF "None" \in DOMAIN d \/ DOMAIN d = {} THEN Returns("None")
    ELSE LET mode == Get(d, "mode", JsonValue("int", 0))
             station == Get(d, "station", JsonValue("bool", 0))
         IN  IF Truthy(station) THEN Returns("DOCKED")
             ELSE IF Unhashable(mode) THEN [exc |-> "TypeError", value |-> "none"]
             ELSE LET sunseeker_state == MODE_TO_STATE(mode, "paused")
                  IN  IF sunseeker_state = "mowing" THEN Returns("MOWING")
                      ELSE IF sunseeker_state = "docked" THEN Returns("DOCKED")
                      ELSE IF sunseeker_state = "paused" THEN Returns("PAUSED")
                      ELSE Returns("ERROR")

\* The entity's state is written: the activity is read for the snapshot the
\* coordinator holds, which is None until something was published.
WriteState ==
    /\ left > 0
    /\ left' = left - 1
    /\ activity' = Activity(data)
    /\ UNCHANGED <<coordinatorVars, registryVars, flowVars>>

\* A robot-status message is ingested and the entity's state is written.
IngestAndWriteState(d) ==
    /\ left > 0
    /\ left' = left - 1
    /\ status_data' = StatusUpdate(status_data, d)
    /\ data' = Combined(d, rain_data)
    /\ activity' = Activity(data')
    /\ UNCHANGED <<rain_data, device_info, mqttVars, loopQueue, taskVars, entryVars,
                   timer, last_update_success, ev, ghostVars, fresh, callVars,
                   published, call, retry, registryVars, flowVars>>

\* A refresh returns the stored messages' union, empty when nothing was
\* ingested, and the entity's state is written.
RefreshAndWriteState ==
    /\ left > 0
    /\ left' = left - 1
    /\ data' = Combined(status_data, rain_data)
    /\ activity' = Activity(data')
    /\ UNCHANGED <<status_data, rain_data, device_info, mqttVars, loopQueue, taskVars,
                   entryVars, timer, last_update_success, ev, ghostVars, fresh, callVars,
                   published, call, retry, registryVars, flowVars>>

InitActivity == Constructed(MaxActivityInputs)

NextActivity ==
    \/ WriteState
    \/ \E d \in Snapshots : IngestAndWriteState(d)
    \/ RefreshAndWriteState

SpecActivity == InitActivity /\ [][NextActivity]_vars

(***************************************************************************)
(* Properties.                                                             *)
(***************************************************************************)
\* This step is the event loop handling message p.
Handling(p) ==
    /\ loopQueue # <<>>
    /\ loopQueue[1] = [kind |-> "msg", payload |-> p]
    /\ loopQueue' = Tail(loopQueue)

RobotPayload(p) == p.kind = "object" /\ "cmd" \in DOMAIN p.obj /\ p.obj["cmd"] = 501
RainPayload(p) == p.kind = "object" /\ "cmd" \in DOMAIN p.obj /\ p.obj["cmd"] = 505
Malformed(p) == p.kind # "object"

\* C1: handling a JSON object with cmd=501 replaces the stored robot-status
\* message with it, leaves the stored rain-status message unchanged and
\* publishes a snapshot in which every stored rain-status field is present
\* with its value.
C1_RobotStatusKeepsRain ==
    [][\A p \in Payloads : (Handling(p) /\ RobotPayload(p)) =>
          /\ status_data' = p.obj
          /\ rain_data' = rain_data
          /\ ev'.notify
          /\ \A f \in DOMAIN rain_data : f \in DOMAIN data' /\ data'[f] = rain_data[f]]_vars

\* A robot-status message was just handled while a rain-status message with
\* a different value of the same field was stored.
C1_Witness ==
    /\ ev.op = "handle_robot"
    /\ "mode" \in DOMAIN rain_data
    /\ "mode" \in DOMAIN status_data
    /\ status_data["mode"] # rain_data["mode"]
    /\ data["mode"] = rain_data["mode"]

\* C2 as stated: handling a JSON object with cmd=505 replaces the stored
\* rain-status message, and every field of the last ingested robot-status
\* message has the same value in the snapshot after the ingest as before.
C2_Original ==
    [][\A p \in Payloads : (Handling(p) /\ RainPayload(p)) =>
          /\ rain_data' = p.obj
          /\ \A f \in DOMAIN ingRobot :
                f \in DOMAIN data /\ f \in DOMAIN data' /\ data'[f] = data[f]]_vars

\* C2 amended: handling a JSON object with cmd=505 replaces the stored
\* rain-status message and leaves the stored robot-status message
\* unchanged; a field of the robot-status message that neither the old nor
\* the new rain-status message carries keeps its value in the published
\* snapshot, and a field the new rain-status message carries (cmd always)
\* has the rain-status value there.
C2_RainStatusKeepsRobot ==
    [][\A p \in Payloads : (Handling(p) /\ RainPayload(p)) =>
          /\ rain_data' = p.obj
          /\ status_data' = status_data
          /\ ev'.notify
          /\ \A f \in DOMAIN p.obj : f \in DOMAIN data' /\ data'[f] = p.obj[f]
          /\ \A f \in (DOMAIN status_data) \ (DOMAIN p.obj \cup DOMAIN rain_data) :
                f \in DOMAIN data /\ f \in DOMAIN data' /\ data'[f] = data[f]]_vars

\* A rain-status message was just handled after a robot-status message: the
\* robot's mode is in the snapshot, the robot's cmd is overridden.
C2_Witness ==
    /\ ev.op = "handle_rain"
    /\ "mode" \in DOMAIN status_data
    /\ "mode" \notin DOMAIN rain_data
    /\ data["mode"] = status_data["mode"]
    /\ status_data["cmd"] = 501
    /\ data["cmd"] = 505

\* C3: once a status message has been ingested, the published snapshot is
\* the shallow union of the last ingested robot-status message and the last
\* ingested rain-status message, the rain-status value winning.
C3_SnapshotIsUnionOfLatest ==
    (ingRobot # EmptyDict \/ ingRain # EmptyDict) =>
        /\ DOMAIN data = (DOMAIN ingRobot) \cup (DOMAIN ingRain)
        /\ \A f \in DOMAIN ingRain : data[f] = ingRain[f]
        /\ \A f \in (DOMAIN ingRobot) \ (DOMAIN ingRain) : data[f] = ingRobot[f]

\* Two robot-status messages and a rain-status message were ingested; the
\* older robot-status message carried a mode, the newest does not, and the
\* snapshot has no mode.
C3_Witness ==
    /\ loopQueue = <<>>
    /\ "mode" \in DOMAIN older
    /\ ingRobot = arrRobot
    /\ ingRobot # EmptyDict
    /\ "mode" \notin DOMAIN ingRobot
    /\ ingRain # EmptyDict
    /\ "mode" \notin DOMAIN data
    /\ data["cmd"] = 505

\* C4: handling a payload that is not JSON, or is JSON but not an object,
\* leaves the stored messages and the published snapshot unchanged,
\* notifies no listener and lets no exception out of the handler.
C4_MalformedAbsorbed ==
    [][\A p \in Payloads : (Handling(p) /\ Malformed(p)) =>
          /\ UNCHANGED <<status_data, rain_data, data, device_info>>
          /\ ~ev'.notify
          /\ ev'.exc = "none"]_vars

\* A malformed payload was just dropped while the cache held a snapshot.
C4_Witness ==
    /\ ev.op = "handle_dropped"
    /\ status_data # EmptyDict
    /\ data = Merge(status_data, rain_data)

Jobs ==
    Cardinality({i \in 1..Len(initTasks) : initTasks[i] \in {"pub200", "pub205"}})
    + (IF cmdTask = "pub" THEN 1 ELSE 0)
    + (IF refresh.pc \in {"pub200", "pub205"} THEN 1 ELSE 0)

\* This step is _async_update_data beginning.
StartsRefresh == refresh.pc = "idle" /\ ev'.op \in {"refresh", "refresh_failed"}

C7_FlagWrittenOnLoop == [][connected' # connected => ev'.ctx = "loop"]_vars

\* C8: the stored robot-status message, the stored rain-status message and
\* the published snapshot are written by steps of the event loop only, and
\* _on_mqtt_message does nothing but hand the message to the loop.
C8_CacheWrittenOnLoop ==
    [][/\ (status_data' # status_data \/ rain_data' # rain_data \/ data' # data) =>
            ev'.ctx = "loop"
       /\ ev'.op = "message" =>
            /\ UNCHANGED <<status_data, rain_data, data>>
            /\ Len(loopQueue') = Len(loopQueue) + 1
            /\ SubSeq(loopQueue', 1, Len(loopQueue)) = loopQueue
            /\ loopQueue'[Len(loopQueue')].kind = "msg"]_vars

\* The MQTT thread has just received a robot-status message: it is queued
\* and the cache is as it was.
C8_Witness ==
    /\ ev.ctx = "mqtt"
    /\ ev.op = "message"
    /\ arrRobot # EmptyDict
    /\ status_data = EmptyDict
    /\ data = None
    /\ loopQueue # <<>>

NoPendingMessage == \A i \in 1..Len(loopQueue) : loopQueue[i].kind # "msg"

\* C9: once every delivered message is processed, the cache holds the
\* last-arrived robot-status message and the last-arrived rain-status
\* message, and the snapshot is their union.
C9_LastArrivedWins ==
    NoPendingMessage =>
        /\ status_data = arrRobot
        /\ rain_data = arrRain
        /\ (arrRobot # EmptyDict \/ arrRain # EmptyDict) => data = Merge(arrRobot, arrRain)

\* Two different robot-status messages arrived and were processed, and a
\* refresh ran in between or after.
C9_Witness ==
    /\ NoPendingMessage
    /\ older # EmptyDict
    /\ older # arrRobot
    /\ status_data = arrRobot
    /\ refresh.result = "ok"

\* C10: when a teardown that began during a refresh in flight has
\* completed, no refresh timer is pending and no MQTT thread is running.
C10_TeardownCancelsTimers ==
    (entry = "unloaded" /\ inflight) => (~timer /\ ~thread)

\* The coordinator is set up and its teardown has not begun.
BeforeTeardown == entry \in {"stored", "loaded", "platforms_unloaded"}

\* C11 as stated: between the creation and the teardown of a coordinator a
\* subscription to the response topic is active in every state, also before
\* the first successful connect and after a broker disconnect.
C11_Original == BeforeTeardown => subscribed

\* C11 amended: until the teardown begins, the subscription to the response
\* topic is active exactly while the flag connected is set, that is from a
\* successful connect, which subscribes, to the next disconnect; there is
\* none before the first successful connect nor after a disconnect, and a
\* reconnect subscribes again.
C11_SubscribedWhileConnected ==
    /\ entry = "new" => ~subscribed
    /\ BeforeTeardown => (subscribed <=> connected)

\* The broker session was lost and set up again: two connects have each
\* handed an initial status request to the loop, and the subscription is
\* active.
C11_Witness ==
    /\ entry = "loaded"
    /\ subscribed
    /\ connected
    /\ Cardinality({i \in 1..Len(loopQueue) : loopQueue[i].kind = "initial"}) = 2

\* This step is a call of async_shutdown beginning: the one of
\* async_unload_entry or a further one.
ShutdownBegins ==
    ev'.op = "shutdown" /\ (left' < left \/ entry = "platforms_unloaded")

\* This step begins a call that dispatches loop_stop.
DispatchesLoopStop ==
    Len(shutdowns') > Len(shutdowns) \/ (entry # "sd_loop_stop" /\ entry' = "sd_loop_stop")

\* This step ends a call of async_shutdown.
ShutdownEnds ==
    Len(shutdowns') < Len(shutdowns) \/ (entry # "unloaded" /\ entry' = "unloaded")

\* The connect of the setup failed: the coordinator has a client that was
\* never connected and has no loop thread.
ConnectFailed ==
    /\ entry \in {"stored", "loaded", "platforms_unloaded"}
    /\ shutdowns = <<>>
    /\ mqtt_client
    /\ ~thread

\* C12 as stated: a call of async_shutdown on a coordinator that is already
\* shut down or was never connected performs no loop_stop or disconnect.
C12_Original ==
    [][(ShutdownBegins /\ (~mqtt_client \/ ConnectFailed)) => ~DispatchesLoopStop]_vars

\* C12 amended: a call of async_shutdown on a coordinator without a client
\* (already shut down, or never set up) dispatches no loop_stop or
\* disconnect, raises nothing and changes nothing; a call on a coordinator
\* with a client, connected or not, clears the flag and dispatches
\* loop_stop; no step of a call, overlapping or not, lets an exception
\* out, and when a call ends the client reference is cleared.
C12_ShutdownIdempotent ==
    [][/\ (ShutdownBegins /\ ~mqtt_client) =>
            /\ ~DispatchesLoopStop
            /\ UNCHANGED <<cacheVars, mqttVars, shutdowns, loopQueue, taskVars,
                           unload_ok, listeners, timer, last_update_success>>
            /\ ev'.exc = "none"
       /\ (ShutdownBegins /\ mqtt_client) => (DispatchesLoopStop /\ ~connected')
       /\ ev'.op \in {"shutdown", "loop_stop", "client_disconnect", "shutdown_error",
                      "shutdown_done"} => ev'.exc = "none"
       /\ ShutdownEnds => ~mqtt_client']_vars

\* Two calls overlapped: the one of the unload has cleared the client, and
\* the other one, back from loop_stop, found no client and ended there.
C12_Witness ==
    /\ ev.op = "shutdown_error"
    /\ entry = "unloaded"
    /\ shutdowns = <<>>
    /\ ~mqtt_client
    /\ ~thread

\* SunseekerLawnMower.available
LawnMowerAvailable == last_update_success

\* SunseekerSensor.available
SensorAvailable == last_update_success /\ data # None

\* C13: once the initial broker connect has failed and async_setup_entry
\* has stored the coordinator and set up the entities, the lawn-mower
\* entity and the sensors report unavailable in every state in which no
\* connection is established.
C13_UnavailableWhileNotConnected ==
    (entry = "loaded" /\ mqtt_client /\ ~thread /\ ~connected) =>
        (~LawnMowerAvailable /\ ~SensorAvailable)

\* C14: a failed refresh does not end the schedule: while entities listen,
\* the refresh timer is pending after the failure; a refresh that begins,
\* on a tick of that timer or on request, while the coordinator is
\* connected sends the status request again; and a refresh that got both
\* of its requests published succeeds.
C14_FailedRefreshKeepsSchedule ==
    [][/\ ev'.op = "refresh_failed" => (timer' = listeners /\ last_update_success' = FALSE)
       /\ (StartsRefresh /\ mqtt_client /\ connected) =>
            (refresh'.pc = "pub200" /\ ev'.exc = "none")
       /\ (refresh.pc = "ret205" /\ refresh'.pc # "ret205") =>
            (ev'.op = "refresh_ok" /\ last_update_success')]_vars

\* A refresh failed while the coordinator was not connected, the connection
\* was established, and the refresh of the next tick of the timer sent
\* both requests and succeeded.
C14_Witness ==
    /\ retry = "recovered"
    /\ ev.op = "refresh_ok"
    /\ refresh.result = "ok"
    /\ refresh.s200
    /\ refresh.s205
    /\ last_update_success
    /\ timer

\* C15: in every refresh the status request (cmd 200) is published before
\* the rain request (cmd 205): the rain request is dispatched and published
\* only after the status request of the same refresh was published, never
\* in a refresh whose status request failed; a refresh in which a send
\* fails (the coordinator is not connected at the send, or the publish
\* raises) ends in UpdateFailed, and only a refresh that published both
\* succeeds.
C15_StatusBeforeRain ==
    [][/\ refresh'.s205 => refresh'.s200
       /\ refresh'.pc \in {"pub205", "ret205"} => refresh'.s200
       /\ (ev'.pub = CMD_RAIN_DELAY /\ refresh' # refresh) =>
            (refresh.pc = "pub205" /\ refresh.s200 /\ refresh'.s205)
       /\ (ev'.pub = CMD_STATUS_UPDATE /\ refresh' # refresh) =>
            (refresh.pc = "pub200" /\ ~refresh.s205 /\ refresh'.s200)
       /\ (refresh.pc = "err" /\ refresh' # refresh) =>
            /\ ev'.op = "refresh_failed"
            /\ ev'.exc = "UpdateFailed"
            /\ refresh'.result = "failed"
            /\ refresh'.s205 = FALSE
       /\ (refresh.pc = "sleep" /\ refresh' # refresh /\ ~(mqtt_client /\ connected)) =>
            (ev'.exc = "UpdateFailed" /\ refresh'.result = "failed" /\ ~refresh'.s205)
       /\ ev'.op = "refresh_ok" => (refresh'.s200 /\ refresh'.s205)]_vars

\* The status request of a refresh was published, the publish of its rain
\* request raised, and the refresh has ended in UpdateFailed.
C15_Witness ==
    /\ ev.op = "refresh_failed"
    /\ ev.exc = "UpdateFailed"
    /\ refresh.result = "failed"
    /\ refresh.s200
    /\ ~refresh.s205
    /\ mqtt_client
    /\ connected

\* C16: the device identity is None until a robot-status message is
\* ingested; the first ingested robot-status message sets it, from the model
\* and the version of that message; once set it never changes, whatever
\* later messages carry.
C16_IdentitySetOnce ==
    [][/\ device_info # None => device_info' = device_info
       /\ ingRobot' = EmptyDict => device_info' = None
       /\ device_info' # device_info => (ev'.op = "handle_robot" /\ ev'.ctx = "loop")
       /\ \A p \in IdentityPayloads :
            (Handling(p) /\ RobotPayload(p) /\ device_info = None) =>
                /\ device_info' # None
                /\ device_info'["model"] =
                       (IF "model" \in DOMAIN p.obj THEN p.obj["model"] ELSE NoValue)
                /\ device_info'["sw_version"] =
                       (IF "version" \in DOMAIN p.obj THEN p.obj["version"] ELSE NoValue)]_vars

\* A second robot-status message with another model and version was just
\* ingested, and the identity is still the one of the first.
C16_Witness ==
    /\ ev.op = "handle_robot"
    /\ device_info # None
    /\ device_info["model"] = 7
    /\ "model" \in DOMAIN ingRobot
    /\ ingRobot["model"] = 8
    /\ older # EmptyDict
    /\ status_data = ingRobot

\* A supplied day of the call has a slot whose start or end is a string
\* that is no number, or None.
NotCoercible(x) == x.kind \in {"text", "none"}

HasBadSlot(c) ==
    \E k \in (DOMAIN c) \ {"auto", "pause"} :
        /\ "slots" \in DOMAIN c[k]
        /\ \E i \in 1..Len(c[k]["slots"]) :
              \E f \in DOMAIN c[k]["slots"][i] : NotCoercible(c[k]["slots"][i][f])

\* This step is a call of set_schedule.
CallsSetSchedule ==
    left' < left /\ ev'.op \in {"set_schedule", "send_command"} /\ call' # None

\* C17: a set_schedule call in which a slot has a start or an end that
\* cannot be coerced to an integer raises to its caller (ValueError,
\* TypeError, or the KeyError of an earlier slot) before async_send_command
\* is invoked: no publish job is dispatched, no command is pending and
\* nothing is published, whether the coordinator is connected or not.
C17_BadSlotFailsBeforeSend ==
    [][(CallsSetSchedule /\ HasBadSlot(call')) =>
          /\ ev'.op = "set_schedule"
          /\ ev'.exc \in {"ValueError", "TypeError", "KeyError"}
          /\ ev'.pub = NoPub
          /\ cmdTask' = "idle"
          /\ Jobs' = Jobs
          /\ command' = command
          /\ published' = NoMessage]_vars

\* A set_schedule call with a slot that is no number has just raised
\* ValueError while the coordinator was connected; nothing was published.
C17_Witness ==
    /\ ev.op = "set_schedule"
    /\ ev.exc = "ValueError"
    /\ mqtt_client
    /\ connected
    /\ cmdTask = "idle"
    /\ published = NoMessage

\* json.loads of a published payload: the object with the members of the
\* text.
Decoded(t) == [k \in {m[1] : m \in t} |-> (CHOOSE m \in t : m[1] = k)[2]]

\* d is a schedule command: cmd 103 and the seven day keys, each with an
\* empty object or with an object of a slice list and a trimming flag.
HasScheduleShape(d) ==
    /\ DOMAIN d = {"cmd", "auto", "pause", "Mon", "Tue", "Wed", "Thu", "Fri", "Sat", "Sun"}
    /\ d["cmd"] = 103
    /\ \A day \in {"Mon", "Tue", "Wed", "Thu", "Fri", "Sat", "Sun"} :
          \/ d[day] = EmptyDict
          \/ /\ DOMAIN d[day] = {"slice", "trimming"}
             /\ d[day]["trimming"] \in BOOLEAN
             /\ \A i \in 1..Len(d[day]["slice"]) :
                    DOMAIN d[day]["slice"][i] = {"start", "end"}

\* d is a schedule command of call.data c: cmd 103, the seven day keys, an
\* empty object for a day that was not supplied, and a slice list with one
\* entry of two integers per slot and a trimming flag for a supplied day.
IsScheduleOf(d, c) ==
    /\ DOMAIN d = {"cmd", "auto", "pause", "Mon", "Tue", "Wed", "Thu", "Fri", "Sat", "Sun"}
    /\ d["cmd"] = 103
    /\ \A day \in {"Mon", "Tue", "Wed", "Thu", "Fri", "Sat", "Sun"} :
          IF Lower(day) \in DOMAIN c
          THEN /\ DOMAIN d[day] = {"slice", "trimming"}
               /\ d[day]["trimming"] \in BOOLEAN
               /\ d[day]["trimming"] =
                      (IF "trimming" \in DOMAIN c[Lower(day)] THEN c[Lower(day)]["trimming"] ELSE TRUE)
               /\ Len(d[day]["slice"]) =
                      (IF "slots" \in DOMAIN c[Lower(day)] THEN Len(c[Lower(day)]["slots"]) ELSE 0)
               /\ \A i \in 1..Len(d[day]["slice"]) :
                      /\ DOMAIN d[day]["slice"][i] = {"start", "end"}
                      /\ d[day]["slice"][i]["start"] \in Int
                      /\ d[day]["slice"][i]["end"] \in Int
          ELSE d[day] = EmptyDict

\* C18: every command set_schedule hands to async_send_command, and every
\* payload published for it, has cmd=103 and the seven day keys Mon..Sun,
\* whatever days the call supplies: a day that was not supplied maps to an
\* empty object, a supplied day to an object with a slice list and a
\* trimming flag.
C18_ScheduleHasSevenDays ==
    [][/\ (CallsSetSchedule /\ ev'.exc = "none") =>
            (cmdTask' = "pub" /\ IsScheduleOf(command', call'))
       /\ (ev'.pub = 103 /\ cmdTask = "pub") =>
            /\ published'.topic = "/device/id/get"
            /\ Decoded(published'.payload) = command
            /\ HasScheduleShape(Decoded(published'.payload))]_vars

\* A schedule was published for a call that supplied Sunday alone, with one
\* slot and trimming off: Monday is an empty object, Sunday has one slice.
C18_Witness ==
    /\ ev.pub = 103
    /\ published.topic = "/device/id/get"
    /\ Decoded(published.payload)["Mon"] = EmptyDict
    /\ DOMAIN Decoded(published.payload)["Sun"] = {"slice", "trimming"}
    /\ Len(Decoded(published.payload)["Sun"]["slice"]) = 1
    /\ Decoded(published.payload)["Sun"]["slice"][1]["end"] = 9
    /\ Decoded(published.payload)["Sun"]["trimming"] = FALSE

\* C19: the commands of the four mower intents are exactly {cmd:101,
\* mode:1} for start, {cmd:101, mode:0} for pause, {cmd:101, mode:2} for
\* dock and {cmd:101, mode:4} for edge-cut, and the payload published for
\* each has these two members and no other and goes to the command topic.
C19_IntentCommands ==
    [][/\ (SendCommand /\ ev'.exc = "none") =>
            (cmdTask' = "pub" /\ command' = [cmd |-> 101, mode |-> 1])
       /\ (AsyncPause /\ ev'.exc = "none") =>
            (cmdTask' = "pub" /\ command' = [cmd |-> 101, mode |-> 0])
       /\ (AsyncDock /\ ev'.exc = "none") =>
            (cmdTask' = "pub" /\ command' = [cmd |-> 101, mode |-> 2])
       /\ (EdgeCutService /\ ev'.exc = "none") =>
            (cmdTask' = "pub" /\ command' = [cmd |-> 101, mode |-> 4])
       /\ (ev'.pub = 101 /\ cmdTask = "pub") =>
            /\ published'.topic = "/device/id/get"
            /\ published'.payload = {<<"cmd", 101>>, <<"mode", command["mode"]>>}
            /\ command["mode"] \in {0, 1, 2, 4}]_vars

\* The edge-cut command was just published.
C19_Witness ==
    /\ ev.pub = 101
    /\ ev.ctx = "executor"
    /\ published.topic = "/device/id/get"
    /\ published.payload = {<<"cmd", 101>>, <<"mode", 4>>}

\* C20: while no robot-status and no rain-status message has been ingested
\* the snapshot entities read is None or empty, also after refreshes that
\* succeeded; once a message of each kind has been ingested the snapshot
\* has every field of both, a field of the rain-status message with the
\* rain-status value and any other with the robot-status value.
C20_NoDataUntilIngested ==
    /\ (ingRobot = EmptyDict /\ ingRain = EmptyDict) => data \in {None, EmptyDict}
    /\ (ingRobot # EmptyDict /\ ingRain # EmptyDict) =>
            /\ data # None
            /\ \A f \in DOMAIN ingRain : f \in DOMAIN data /\ data[f] = ingRain[f]
            /\ \A f \in DOMAIN ingRobot :
                  f \in DOMAIN data /\ (f \notin DOMAIN ingRain => data[f] = ingRobot[f])

\* A refresh has just succeeded although nothing was ever ingested: the
\* snapshot is the empty dict and the last update counts as a success.
C20_Witness ==
    /\ ev.op = "refresh_ok"
    /\ ingRobot = EmptyDict
    /\ ingRain = EmptyDict
    /\ data = EmptyDict
    /\ last_update_success

\* A JSON object that is neither a robot-status nor a rain-status message.
OtherObject(p) ==
    /\ p.kind = "object"
    /\ ("cmd" \in DOMAIN p.obj => p.obj["cmd"] \notin {501, 505})

\* C21: handling a valid JSON object whose cmd is neither 501 nor 505, or
\* that has no cmd at all, leaves the stored robot-status message, the
\* stored rain-status message, the published snapshot and device_info
\* unchanged and notifies no subscriber.
C21_OtherCmdIgnored ==
    [][\A p \in Payloads : (Handling(p) /\ OtherObject(p)) =>
          /\ UNCHANGED <<status_data, rain_data, data, device_info>>
          /\ ~ev'.notify]_vars

\* An object without a cmd was just ignored while the cache held a robot
\* status message, its snapshot and the device identity.
C21_Witness ==
    /\ ev.op = "handle_ignored"
    /\ status_data # EmptyDict
    /\ data = Merge(status_data, rain_data)
    /\ device_info # None

\* This step is the end of async_unload_entry for entry e.
UnloadEnds(e) ==
    /\ setup[e].pc \in {"unload_platforms", "async_shutdown"}
    /\ setup'[e].pc = "idle"

\* C22: unloading an entry removes it from the registry; the three shared
\* services are unregistered exactly when that removal leaves the registry
\* empty, and stay as they were while another entry remains in it.
C22_ServicesRemovedWithLastEntry ==
    [][\A e \in Entries : UnloadEnds(e) =>
          /\ e \notin DOMAIN Registry(hass_data')
          /\ DOMAIN Registry(hass_data') = {} => services' = EmptyDict
          /\ DOMAIN Registry(hass_data') # {} => services' = services]_vars

\* Entry e1 was unloaded while e2 stayed in the registry: the three
\* services are still registered.
C22_Witness ==
    /\ setup["e1"].pc = "idle"
    /\ setup["e1"].state = "not_loaded"
    /\ setup["e1"].ret = "true"
    /\ DOMAIN Registry(hass_data) = {"e2"}
    /\ DOMAIN services = ServiceNames

\* The text is empty or has nothing but whitespace.
Blank(s) == \A i \in 1..Len(s) : s[i] \in {" ", "\t"}

\* C23: a device id that is empty or only whitespace is rejected by the
\* config flow with the invalid_device_id error; no config entry exists
\* for such an id, so no coordinator is built and no connection attempted.
C23_BlankDeviceIdRejected ==
    /\ (flow.type \in {"create_entry", "abort"} \/ flow.errors # "none") =>
          (Blank(flow.device_id) <=>
              (flow.type = "form" /\ flow.errors = "invalid_device_id"))
    /\ \A u \in DOMAIN config_entries :
          ~Blank(u) /\ ~Blank(config_entries[u].device_id)

\* A device id of a space and a tab was just rejected, after an entry for
\* a proper id had been created and set up.
C23_Witness ==
    /\ flow = [type |-> "form", errors |-> "invalid_device_id", device_id |-> <<" ", "\t">>]
    /\ \E u \in DOMAIN config_entries : config_entries[u].coordinator

\* Entry e completed async_setup_entry with True and no unload of it began.
SetUp(e) == setup[e].pc = "idle" /\ setup[e].state = "loaded"

\* C24: whenever at least one entry has completed its setup successfully
\* and has not been unloaded, the three shared services are registered,
\* for every interleaving of the setups of two entries.
C24_ServicesWhileEntrySetUp ==
    (\E e \in Entries : SetUp(e)) => DOMAIN services = ServiceNames

\* The coordinators of the entries in the registry.
Registered == {Registry(hass_data)[e] : e \in DOMAIN Registry(hass_data)}

\* C25: whenever the shared services are registered, the coordinator their
\* handlers send commands through belongs to an entry that is still in the
\* registry and has not been shut down.
C25_ServicesUseLiveCoordinator ==
    \A s \in DOMAIN services :
        services[s] \in Registered /\ services[s] \notin coordinators.shut

\* C27: async_unload_entry always shuts the entry's coordinator
\* down and removes the entry from the registry, whatever the unloading of
\* the platforms did; it returns True only if that unloading succeeded;
\* called for an entry that is not in the registry it changes nothing.
C27_UnloadAlwaysCleansUp ==
    [][\A e \in Entries : UnloadEnds(e) =>
          /\ e \notin DOMAIN Registry(hass_data')
          /\ setup[e].coordinator # NoCoordinator =>
                setup[e].coordinator \in coordinators'.shut
          /\ setup'[e].ret = "true" => setup'[e].platforms = "true"
          /\ setup[e].coordinator = NoCoordinator =>
                UNCHANGED <<hass_data, services, coordinators>>]_vars

\* async_shutdown has completed.
ShutDown == entry = "unloaded"

NamedActivity(d) ==
    IF "None" \in DOMAIN d \/ DOMAIN d = {} THEN "None"
    ELSE IF "station" \in DOMAIN d /\ d["station"].kind # "null" /\ d["station"].v # 0
         THEN "DOCKED"
    ELSE IF "mode" \in DOMAIN d /\ d["mode"].kind \in {"int", "bool"}
            /\ d["mode"].v \in {1, 4}
         THEN "MOWING"
    ELSE IF "mode" \in DOMAIN d /\ d["mode"].kind \in {"int", "bool"} /\ d["mode"].v = 2
         THEN "DOCKED"
    ELSE "PAUSED"

\* C28: the activity is a function of the snapshot only: None without
\* data; DOCKED whenever station is true; otherwise MOWING for mode 1 or
\* 4, DOCKED for mode 2 and PAUSED for mode 0, a missing mode or any
\* other mode value; ERROR is never returned.
C28_ActivityOfSnapshot ==
    activity.value # "not read" =>
        /\ activity.exc = "none"
        /\ activity.value = NamedActivity(data)
        /\ activity.value # "ERROR"

====
